---- MODULE Spec2Model ----
(***************************************************************************)
(* The CPU-aware execution governor of src/cpu_manager.py: class           *)
(* CPUManager with its background sampling loop (_monitor_cpu), the        *)
(* lifecycle calls start_monitoring / stop_monitoring, the blocking        *)
(* primitive wait_for_cpu, throttled_execute and adaptive_sleep, and class *)
(* ProcessThrottler with its counter and throttled_batch_execute.          *)
(*                                                                         *)
(* Threads.  The slots in Loops hold the threading.Thread objects that run *)
(* _monitor_cpu; the threads in Callers invoke the public methods, those   *)
(* in Waiters also wait_for_cpu.  A Python statement that reads one shared *)
(* field and then writes another is split where another thread can run in  *)
(* between (line 39 / lines 40-42, line 58 / lines 59-64, line 80 /        *)
(* line 85, and the read and the write of lines 183 and 187).              *)
(*                                                                         *)
(* Time.  One tick is 0.5 s, the smallest sleep of wait_for_cpu.  Tick     *)
(* lets time pass only when no thread has an instantaneous step to take,   *)
(* so a sleep lasts exactly its length and computation between sleeps      *)
(* takes no time; a sleep that is no whole number of ticks ends with the   *)
(* tick it falls in, its length is kept in milliseconds.  Percentages are  *)
(* whole numbers.                                                          *)
(*                                                                         *)
(* Specifications.  Spec and FairSpec: the lifecycle of the governor and   *)
(* wait_for_cpu.  ExecSpec, LimSpec and BatchSpec: one caller of a running *)
(* governor uses throttled_execute and adaptive_sleep, a ProcessThrottler, *)
(* throttled_batch_execute.  RaceSpec: two callers of one ProcessThrottler *)
(* whose governor was not started.  SingletonSpec: two threads inside      *)
(* get_cpu_manager.  IdleSpec: a governor that is never started.           *)
(* FrameSpec: one thread using every reading operation beside the loop.    *)
(* DropSpec: the load drops while the flag is set.  BlockFairSpec: callers *)
(* blocked beside the loop.  TimeoutSpec: wait_for_cpu against a deadline. *)
(***************************************************************************)
EXTENDS Integers, FiniteSets, Sequences, TLC

\* ---------------------------------------------------------------- bounds
MaxTimeout == 1      \* the longest timeout given to wait_for_cpu, in ticks
MaxCores == 4        \* the largest psutil.cpu_count()
MaxStarts == 3       \* the number of start_process calls of a run
MaxTasks == 3        \* the longest task list given to throttled_batch_execute

\* ---------------------------------------------------------------- threads
\* (the formulas that hold with these sets also hold with three loop slots
\* and with two waiters; those runs take minutes instead of seconds)
Loops == {1, 2}      \* thread slots available to _monitor_cpu
Callers == {1, 2}    \* caller threads
Waiters == {1}       \* the callers that use wait_for_cpu
Workers == {1}       \* the caller that runs throttled work
NoThread == 0        \* monitor_thread = None
NoTimeout == -1      \* timeout = None

\* ------------------------------------------------- inputs of the program
\* max_cpu_percent: the callers of get_cpu_manager pass 75.0 and 80.0
MaxCpuChoices == {75, 80}
\* check_interval in ticks: the default 1.0 s, the only value the
\* repository constructs a CPUManager with
CheckIntervals == {2}
\* what psutil.cpu_percent can return (a percentage of the whole machine)
Samples == {50, 80, 90, 100}
\* the same with a reading at the lowest threshold of adaptive_sleep
FineSamples == Samples \cup {70}
\* wait_for_cpu(timeout): None, or 0 .. MaxTimeout ticks
Timeouts == {NoTimeout} \cup (0..MaxTimeout)

\* psutil.cpu_count() of the machine
CoreCounts == 1..MaxCores

\* an entry of a task list returns a value when called, raises an exception
\* when called, or is no callable at all
TaskKinds == {"returns", "raises", "not_callable"}
TaskLists == UNION {[1..n -> TaskKinds] : n \in 0..MaxTasks}
\* batch_size: None, or an integer
NoBatchSize == -1000
BatchSizes == {NoBatchSize, -1, 0, 1, 2}
\* the machine a batch is run on has four cores: max_concurrent is 2
BatchCores == {4}

\* ------------------------------------------------------ program constants
TaskSleepMs == 200     \* adaptive_sleep(0.2) after a task
BatchSleepMs == 1000   \* adaptive_sleep(1.0) after a batch
MeasureMs == 1000      \* psutil.cpu_percent(interval=1)
JoinTimeoutMs == 2000  \* monitor_thread.join(timeout=2)

Ticks(ms) == ms \div 500
\* time.sleep of a length that is no multiple of a tick ends with the tick
\* it falls in
SleepTicks(ms) == (ms + 499) \div 500

GuardSleepMs == 100    \* throttled_execute: time.sleep(0.1)
\* base_sleep in ms: the default 0.1 and the 0.2 and 1.0 of
\* throttled_batch_execute
BaseSleeps == {100, 200, 1000}

NoStop == -1           \* stop_age when no stop_monitoring is being timed
NoDrop == -1           \* low_age while the load has not dropped
NoClock == -1          \* wclock while no wait_for_cpu call is being timed
NoInstance == 0        \* _cpu_manager = None
\* get_cpu_stats has not returned
NoStats == [current_usage |-> -1, max_allowed |-> -1, throttle_active |-> FALSE]

\* a func given to throttled_execute either returns a value or raises an
\* exception; values and exceptions are told apart by a number
FuncIds == {1, 2}
Funcs == {<<k, v>> : k \in {"returns", "raises"}, v \in FuncIds}
NoFunc == <<"none", 0>>
NoOutcome == <<"none", 0>>

VARIABLES
  max_cpu_percent,    \* CPUManager.max_cpu_percent
  check_interval,     \* CPUManager.check_interval, in ticks
  monitoring,         \* CPUManager.monitoring
  current_cpu_usage,  \* CPUManager.current_cpu_usage
  throttle_active,    \* CPUManager.throttle_active
  monitor_thread,     \* CPUManager.monitor_thread: a loop slot or NoThread
  lpc,                \* lpc[l]: where the thread of slot l is in _monitor_cpu
  ltimer,             \* ltimer[l]: ticks left of the blocking call it is in
  lcond,              \* lcond[l]: the value of the test of line 58 it took
  cpc,                \* cpc[c]: where caller c is
  ctimer,             \* ctimer[c]: ticks left of its sleep or join
  cjoin,              \* cjoin[c]: the thread its stop_monitoring joins
  wtimeout,           \* wait_for_cpu: the timeout argument
  welapsed,           \* wait_for_cpu: time.time() - start_time, in ticks
  wslept,             \* wait_for_cpu: whether it has slept in this call
  wresult,            \* wait_for_cpu: "none", "True" or "False"
  below_stored,       \* history: a sample below the ceiling has been stored
                      \* since throttle_active was last set to True
  stop_age,           \* history: ticks since the latest stop_monitoring that
                      \* no start_monitoring has followed, or NoStop
  cop,                \* cop[c]: the call of caller c that wait_for_cpu is
                      \* nested in, or "none"
  csleep,             \* csleep[c]: the argument of the time.sleep caller c is
                      \* in (throttled_execute, adaptive_sleep), in ms
  sbase,              \* adaptive_sleep: the base_sleep argument, in ms
  tfunc,              \* throttled_execute: the func argument
  tcalls,             \* throttled_execute: invocations of func in this call
  tout,               \* throttled_execute: what has reached the caller
  core_count,         \* what psutil.cpu_count() gave the ProcessThrottler,
                      \* 0 while none has been built
  max_concurrent,     \* ProcessThrottler.max_concurrent
  process_count,      \* ProcessThrottler.process_count
  pread,              \* pread[c]: the process_count caller c has read in
                      \* start_process or end_process
  cres,               \* cres[c]: the value of can_start_process
  held,               \* history: start_process calls of c that it has not
                      \* ended
  misused,            \* history: a caller has called end_process without a
                      \* start_process of its own
  starts,             \* history: the start_process calls made so far
  tasks,              \* throttled_batch_execute: the tasks argument
  bsize,              \* throttled_batch_execute: the batch_size argument
  bstep,              \* batch_size after lines 197-198
  bi,                 \* the place in tasks where the current batch begins
  bj,                 \* the place in tasks of the entry that is next
  results,            \* the results list: the result of task k is k
  bout,               \* what has reached the caller of the batch call
  bran,               \* history: the tasks invoked, in the order of invocation
  bwaits,             \* history: the wait_for_cpu calls of the batch call
  manager_ref,        \* the module global _cpu_manager: a place in insts, or
                      \* NoInstance for None
  insts,              \* the CPUManager objects get_cpu_manager has built
  garg,               \* get_cpu_manager: the max_cpu argument of caller c
  gtarget,            \* get_cpu_manager: the object whose start_monitoring
                      \* caller c is in
  got,                \* get_cpu_manager: the object returned to caller c
  first_got,          \* history: the object the first call to return gave
  stats,              \* stats[c]: the dict get_cpu_stats returned to c
  sys_low,            \* the load of the machine has dropped below the
                      \* ceiling and stays there
  low_age,            \* history: ticks since that drop, or NoDrop
  wclock,             \* history: ticks since caller c began the
                      \* wait_for_cpu call that is being timed, or NoClock
  wlast               \* history: the excess read before the latest sleep of
                      \* that call

gov == <<max_cpu_percent, check_interval, monitoring, current_cpu_usage,
         throttle_active, monitor_thread>>
loopv == <<lpc, ltimer, lcond>>
waitv == <<wtimeout, welapsed, wslept, wresult>>
callv == <<cpc, ctimer, cjoin>>
hist == <<below_stored, stop_age>>
execv == <<cop, csleep, sbase, tfunc, tcalls, tout>>
limv == <<core_count, max_concurrent, process_count, pread, cres, held,
          misused, starts>>
batchv == <<tasks, bsize, bstep, bi, bj, results, bout, bran, bwaits>>
singv == <<manager_ref, insts, garg, gtarget, got, first_got>>
latev == <<singv, stats>>
jobv == <<execv, limv, batchv, latev>>
envv == <<sys_low, low_age, wclock, wlast>>
workv == <<jobv, envv>>
vars == <<gov, loopv, callv, waitv, hist, workv>>

\* --------------------------------------------------------------- helpers
Dead(l) == lpc[l] \in {"none", "crashed"}
Alive(l) == ~Dead(l)
LiveLoops == {l \in Loops : Alive(l)}
Joined(l) == \E c \in Callers : cpc[c] = "stop_join" /\ cjoin[c] = l
FreeSlots == {l \in Loops : Dead(l) /\ ~Joined(l)}
Launching == {c \in Callers : cpc[c] = "start_launch"}

\* no caller is inside throttled_execute, adaptive_sleep or a ProcessThrottler
NoWork ==
  /\ cop = [c \in Callers |-> "none"]
  /\ csleep = [c \in Callers |-> 0]
  /\ sbase = [c \in Callers |-> 0]
  /\ tfunc = [c \in Callers |-> NoFunc]
  /\ tcalls = [c \in Callers |-> 0]
  /\ tout = [c \in Callers |-> NoOutcome]
  /\ core_count = 0
  /\ max_concurrent = 0
  /\ process_count = 0
  /\ pread = [c \in Callers |-> 0]
  /\ cres = [c \in Callers |-> "none"]
  /\ held = [c \in Callers |-> 0]
  /\ misused = FALSE
  /\ starts = 0
  /\ tasks = <<>>
  /\ bsize = NoBatchSize
  /\ bstep = 0
  /\ bi = 0
  /\ bj = 0
  /\ results = <<>>
  /\ bout = "none"
  /\ bran = <<>>
  /\ bwaits = 0
  /\ manager_ref = NoInstance
  /\ insts = <<>>
  /\ garg = [c \in Callers |-> 0]
  /\ gtarget = [c \in Callers |-> NoInstance]
  /\ got = [c \in Callers |-> NoInstance]
  /\ first_got = NoInstance
  /\ stats = [c \in Callers |-> NoStats]
  /\ sys_low = FALSE
  /\ low_age = NoDrop
  /\ wclock = [c \in Callers |-> NoClock]
  /\ wlast = [c \in Callers |-> 0]

\* ------------------------------------------------- CPUManager.__init__
Init ==
  /\ max_cpu_percent \in MaxCpuChoices
  /\ check_interval \in CheckIntervals
  /\ monitoring = FALSE
  /\ current_cpu_usage = 0
  /\ throttle_active = FALSE
  /\ monitor_thread = NoThread
  /\ lpc = [l \in Loops |-> "none"]
  /\ ltimer = [l \in Loops |-> 0]
  /\ lcond = [l \in Loops |-> FALSE]
  /\ cpc = [c \in Callers |-> "idle"]
  /\ ctimer = [c \in Callers |-> 0]
  /\ cjoin = [c \in Callers |-> NoThread]
  /\ wtimeout = [c \in Callers |-> NoTimeout]
  /\ welapsed = [c \in Callers |-> 0]
  /\ wslept = [c \in Callers |-> FALSE]
  /\ wresult = [c \in Callers |-> "none"]
  /\ below_stored = FALSE
  /\ stop_age = NoStop
  /\ NoWork


\* ------------------------------------------------ CPUManager._monitor_cpu
\* mutant of WhileCond: the loop test ignores the flag (while True)
WhileCondForever(mon) == TRUE

\* line 54: while self.monitoring
WhileCond(mon) == mon

\* line 58: if self.current_cpu_usage >= self.max_cpu_percent
OverCeiling(usage, ceiling) == usage >= ceiling

\* line 54: the loop test, taken when the thread starts and after each sleep
\* of line 66; the measurement of line 56 then blocks for its 1 s interval
LoopWhile(l) ==
  /\ \/ lpc[l] = "while"
     \/ lpc[l] = "sleep" /\ ltimer[l] = 0
  /\ IF WhileCond(monitoring)
       THEN /\ lpc' = [lpc EXCEPT ![l] = "measure"]
            /\ ltimer' = [ltimer EXCEPT ![l] = Ticks(MeasureMs)]
       ELSE /\ lpc' = [lpc EXCEPT ![l] = "none"]
            /\ UNCHANGED ltimer
  /\ UNCHANGED workv
  /\ UNCHANGED <<gov, lcond, callv, waitv, hist>>

\* lines 56-58: psutil.cpu_percent returns v, v is stored into
\* current_cpu_usage and the comparison of line 58 is evaluated
LoopSample(l, v) ==
  /\ lpc[l] = "measure"
  /\ ltimer[l] = 0
  /\ current_cpu_usage' = v
  /\ lcond' = [lcond EXCEPT ![l] = OverCeiling(v, max_cpu_percent)]
  /\ lpc' = [lpc EXCEPT ![l] = "set"]
  /\ below_stored' = (below_stored \/ v < max_cpu_percent)
  /\ UNCHANGED workv
  /\ UNCHANGED <<max_cpu_percent, check_interval, monitoring, throttle_active,
                 monitor_thread, ltimer, callv, waitv, stop_age>>

\* line 56: psutil.cpu_percent raises; nothing in _monitor_cpu catches it,
\* the exception leaves the thread's target and the thread ends
LoopSampleFail(l) ==
  /\ lpc[l] = "measure"
  /\ ltimer[l] = 0
  /\ lpc' = [lpc EXCEPT ![l] = "crashed"]
  /\ UNCHANGED workv
  /\ UNCHANGED <<gov, ltimer, lcond, callv, waitv, hist>>

\* lines 59-64: throttle_active is written from the branch taken (the logger
\* call of line 63 lies between the test and the write), then
\* line 66: time.sleep(self.check_interval) begins
LoopSetFlag(l) ==
  /\ lpc[l] = "set"
  /\ throttle_active' = lcond[l]
  /\ lcond' = [lcond EXCEPT ![l] = FALSE]
  /\ lpc' = [lpc EXCEPT ![l] = "sleep"]
  /\ ltimer' = [ltimer EXCEPT ![l] = check_interval]
  /\ below_stored' = (below_stored /\ ~lcond[l])
  /\ UNCHANGED workv
  /\ UNCHANGED <<max_cpu_percent, check_interval, monitoring, current_cpu_usage,
                 monitor_thread, callv, waitv, stop_age>>

\* ---------------------------------------------- CPUManager.start_monitoring
\* mutant of StartGuard: the guard of line 39 is dropped
StartGuardDropped(mon) == TRUE

\* line 39: if not self.monitoring
StartGuard(mon) == ~mon

\* line 39: the call reads the flag; when it is set the call returns at once.
\* A call is taken only while a thread slot is left for it.
StartCheck(c) ==
  /\ cpc[c] = "idle"
  /\ Cardinality(FreeSlots) > Cardinality(Launching)
  /\ cpc' = [cpc EXCEPT ![c] = IF StartGuard(monitoring) THEN "start_launch" ELSE "idle"]
  /\ UNCHANGED workv
  /\ UNCHANGED <<gov, loopv, ctimer, cjoin, waitv, hist>>

\* lines 40-42: the flag is set, a Thread is created, stored and started
StartLaunch(c, l) ==
  /\ cpc[c] = "start_launch"
  /\ l \in FreeSlots
  /\ monitoring' = TRUE
  /\ monitor_thread' = l
  /\ lpc' = [lpc EXCEPT ![l] = "while"]
  /\ cpc' = [cpc EXCEPT ![c] = "idle"]
  /\ stop_age' = NoStop
  /\ UNCHANGED workv
  /\ UNCHANGED <<max_cpu_percent, check_interval, current_cpu_usage,
                 throttle_active, ltimer, lcond, ctimer, cjoin, waitv,
                 below_stored>>

\* ----------------------------------------------- CPUManager.stop_monitoring
\* mutant of StopSet: stop_monitoring also clears the throttle flag
StopSetResets(c) ==
  /\ cpc[c] = "idle"
  /\ monitoring' = FALSE
  /\ throttle_active' = FALSE
  /\ IF monitor_thread # NoThread /\ Alive(monitor_thread)
       THEN /\ cpc' = [cpc EXCEPT ![c] = "stop_join"]
            /\ cjoin' = [cjoin EXCEPT ![c] = monitor_thread]
            /\ ctimer' = [ctimer EXCEPT ![c] = Ticks(JoinTimeoutMs)]
       ELSE UNCHANGED callv
  /\ stop_age' = 0
  /\ UNCHANGED workv
  /\ UNCHANGED <<max_cpu_percent, check_interval, current_cpu_usage,
                 monitor_thread, loopv, waitv, below_stored>>

\* lines 47-49: the flag is cleared; with a monitor_thread the call joins it
\* for at most 2 s (a join of a thread that has ended returns at once)
StopSet(c) ==
  /\ cpc[c] = "idle"
  /\ monitoring' = FALSE
  /\ IF monitor_thread # NoThread /\ Alive(monitor_thread)
       THEN /\ cpc' = [cpc EXCEPT ![c] = "stop_join"]
            /\ cjoin' = [cjoin EXCEPT ![c] = monitor_thread]
            /\ ctimer' = [ctimer EXCEPT ![c] = Ticks(JoinTimeoutMs)]
       ELSE UNCHANGED callv
  /\ stop_age' = 0
  /\ UNCHANGED workv
  /\ UNCHANGED <<max_cpu_percent, check_interval, current_cpu_usage,
                 throttle_active, monitor_thread, loopv, waitv, below_stored>>

\* line 49: the join returns when the thread has ended or the 2 s are over
StopJoin(c) ==
  /\ cpc[c] = "stop_join"
  /\ \/ Dead(cjoin[c])
     \/ ctimer[c] = 0
  /\ cpc' = [cpc EXCEPT ![c] = "idle"]
  /\ cjoin' = [cjoin EXCEPT ![c] = NoThread]
  /\ ctimer' = [ctimer EXCEPT ![c] = 0]
  /\ UNCHANGED workv
  /\ UNCHANGED <<gov, loopv, waitv, hist>>

\* ------------------------------------------------- CPUManager.wait_for_cpu
\* mutant of WaitLoopCond: the body runs before the flag is looked at
WaitLoopCondAlways(throttle) == TRUE

\* line 80: while self.throttle_active
WaitLoopCond(throttle) == throttle

\* mutant of TimedOut: the elapsed time is not compared
TimedOutNoClock(timeout, elapsed) ==
  /\ timeout # NoTimeout
  /\ timeout # 0

\* line 81: if timeout and (time.time() - start_time) >= timeout
\* (None and 0 are both falsy in Python)
TimedOut(timeout, elapsed) ==
  /\ timeout # NoTimeout
  /\ timeout # 0
  /\ elapsed >= timeout

\* mutant of SleepTime: every sleep is the longest one
SleepTimeLongest(excess) == 2000

\* mutant of SleepTime: the thresholds are inclusive
SleepTimeInclusive(excess) ==
  IF excess >= 20 THEN 2000
  ELSE IF excess >= 10 THEN 1000
  ELSE 500

\* lines 86-91: sleep_time in milliseconds
SleepTime(excess) ==
  IF excess > 20 THEN 2000
  ELSE IF excess > 10 THEN 1000
  ELSE 500

\* line 78: the call begins, start_time = time.time()
WaitCall(c, t) ==
  /\ cpc[c] = "idle"
  /\ cpc' = [cpc EXCEPT ![c] = "wait_test"]
  /\ wtimeout' = [wtimeout EXCEPT ![c] = t]
  /\ UNCHANGED workv
  /\ UNCHANGED <<gov, loopv, ctimer, cjoin, welapsed, wslept, wresult, hist>>

\* lines 80-82 and 96: the loop test reads throttle_active; the call returns
\* True when it is clear, False when the deadline has passed, and goes on to
\* the backoff otherwise
WaitTest(c) ==
  /\ cpc[c] = "wait_test"
  /\ IF ~WaitLoopCond(throttle_active)
       THEN /\ wresult' = [wresult EXCEPT ![c] = "True"]
            /\ cpc' = [cpc EXCEPT ![c] = "wait_done"]
       ELSE IF TimedOut(wtimeout[c], welapsed[c])
         THEN /\ wresult' = [wresult EXCEPT ![c] = "False"]
              /\ cpc' = [cpc EXCEPT ![c] = "wait_done"]
         ELSE /\ cpc' = [cpc EXCEPT ![c] = "wait_backoff"]
              /\ UNCHANGED wresult
  /\ UNCHANGED workv
  /\ UNCHANGED <<gov, loopv, ctimer, cjoin, wtimeout, welapsed, wslept, hist>>

\* lines 85-94: excess is computed from the stored reading, sleep_time is
\* chosen and time.sleep(sleep_time) begins
WaitBackoff(c) ==
  /\ cpc[c] = "wait_backoff"
  /\ ctimer' = [ctimer EXCEPT ![c] =
                  Ticks(SleepTime(current_cpu_usage - max_cpu_percent))]
  /\ wslept' = [wslept EXCEPT ![c] = TRUE]
  /\ cpc' = [cpc EXCEPT ![c] = "wait_sleep"]
  /\ wlast' = [wlast EXCEPT ![c] =
       IF wclock[c] # NoClock THEN current_cpu_usage - max_cpu_percent ELSE @]
  /\ UNCHANGED <<jobv, sys_low, low_age, wclock>>
  /\ UNCHANGED <<gov, loopv, cjoin, wtimeout, welapsed, wresult, hist>>

\* line 94: the sleep is over, back to the loop test
WaitWake(c) ==
  /\ cpc[c] = "wait_sleep"
  /\ ctimer[c] = 0
  /\ cpc' = [cpc EXCEPT ![c] = "wait_test"]
  /\ UNCHANGED workv
  /\ UNCHANGED <<gov, loopv, ctimer, cjoin, waitv, hist>>

\* lines 82 and 96: the caller has taken the returned value
WaitReturn(c) ==
  /\ cpc[c] = "wait_done"
  /\ cop[c] = "none"
  /\ cpc' = [cpc EXCEPT ![c] = "idle"]
  /\ wtimeout' = [wtimeout EXCEPT ![c] = NoTimeout]
  /\ welapsed' = [welapsed EXCEPT ![c] = 0]
  /\ wslept' = [wslept EXCEPT ![c] = FALSE]
  /\ wresult' = [wresult EXCEPT ![c] = "none"]
  /\ UNCHANGED workv
  /\ UNCHANGED <<gov, loopv, ctimer, cjoin, hist>>

\* ------------------------------------- CPUManager.wait_for_cpu, timed
\* lines 78-80 with a stopwatch beside the call: wclock counts the ticks
\* since the call began, whatever the call itself reads from the clock
TimedWaitCall(c, t) ==
  /\ cpc[c] = "idle"
  /\ cpc' = [cpc EXCEPT ![c] = "wait_test"]
  /\ wtimeout' = [wtimeout EXCEPT ![c] = t]
  /\ wclock' = [wclock EXCEPT ![c] = 0]
  /\ wlast' = [wlast EXCEPT ![c] = 0]
  /\ UNCHANGED <<jobv, sys_low, low_age>>
  /\ UNCHANGED <<gov, loopv, ctimer, cjoin, welapsed, wslept, wresult, hist>>

\* lines 82 and 96: the caller has taken the returned value and stops the
\* stopwatch
TimedWaitReturn(c) ==
  /\ cpc[c] = "wait_done"
  /\ cop[c] = "none"
  /\ wclock[c] # NoClock
  /\ cpc' = [cpc EXCEPT ![c] = "idle"]
  /\ wtimeout' = [wtimeout EXCEPT ![c] = NoTimeout]
  /\ welapsed' = [welapsed EXCEPT ![c] = 0]
  /\ wslept' = [wslept EXCEPT ![c] = FALSE]
  /\ wresult' = [wresult EXCEPT ![c] = "none"]
  /\ wclock' = [wclock EXCEPT ![c] = NoClock]
  /\ wlast' = [wlast EXCEPT ![c] = 0]
  /\ UNCHANGED <<jobv, sys_low, low_age>>
  /\ UNCHANGED <<gov, loopv, ctimer, cjoin, hist>>

\* -------------------------------------------- CPUManager.throttled_execute
\* line 111: the call begins with self.wait_for_cpu(), no timeout given
ExecCall(c, f) ==
  /\ cpc[c] = "idle"
  /\ cop' = [cop EXCEPT ![c] = "throttled_execute"]
  /\ tfunc' = [tfunc EXCEPT ![c] = f]
  /\ cpc' = [cpc EXCEPT ![c] = "wait_test"]
  /\ wtimeout' = [wtimeout EXCEPT ![c] = NoTimeout]
  /\ UNCHANGED limv
  /\ UNCHANGED batchv
  /\ UNCHANGED <<latev, envv>>
  /\ UNCHANGED <<gov, loopv, ctimer, cjoin, welapsed, wslept, wresult, hist,
                 csleep, sbase, tcalls, tout>>

\* mutant of Raised: the exception is wrapped in another one
RaisedWrapped(f) == <<"exception", 0>>

\* line 114: an exception of func leaves throttled_execute as it is
Raised(f) == <<"exception", f[2]>>

\* mutant of Returned: the value of func is replaced
ReturnedOther(f) == <<"value", 0>>

\* line 119: return result
Returned(f) == <<"value", f[2]>>

\* lines 114-117: wait_for_cpu has returned (its value is dropped); func is
\* invoked; when it returns, time.sleep(0.1) begins, when it raises, the
\* exception leaves the call
ExecFunc(c) ==
  /\ cpc[c] = "wait_done"
  /\ cop[c] = "throttled_execute"
  /\ tcalls' = [tcalls EXCEPT ![c] = @ + 1]
  /\ wtimeout' = [wtimeout EXCEPT ![c] = NoTimeout]
  /\ welapsed' = [welapsed EXCEPT ![c] = 0]
  /\ wslept' = [wslept EXCEPT ![c] = FALSE]
  /\ wresult' = [wresult EXCEPT ![c] = "none"]
  /\ IF tfunc[c][1] = "returns"
       THEN /\ cpc' = [cpc EXCEPT ![c] = "exec_sleep"]
            /\ csleep' = [csleep EXCEPT ![c] = GuardSleepMs]
            /\ ctimer' = [ctimer EXCEPT ![c] = SleepTicks(GuardSleepMs)]
            /\ UNCHANGED tout
       ELSE /\ cpc' = [cpc EXCEPT ![c] = "exec_done"]
            /\ tout' = [tout EXCEPT ![c] = Raised(tfunc[c])]
            /\ UNCHANGED <<csleep, ctimer>>
  /\ UNCHANGED limv
  /\ UNCHANGED batchv
  /\ UNCHANGED <<latev, envv>>
  /\ UNCHANGED <<gov, loopv, cjoin, hist, cop, sbase, tfunc>>

\* lines 117-119: the sleep is over, the result of func is returned
ExecWake(c) ==
  /\ cpc[c] = "exec_sleep"
  /\ ctimer[c] = 0
  /\ cpc' = [cpc EXCEPT ![c] = "exec_done"]
  /\ tout' = [tout EXCEPT ![c] = Returned(tfunc[c])]
  /\ UNCHANGED limv
  /\ UNCHANGED batchv
  /\ UNCHANGED <<latev, envv>>
  /\ UNCHANGED <<gov, loopv, ctimer, cjoin, waitv, hist, cop, csleep, sbase,
                 tfunc, tcalls>>

\* the caller has taken the value or the exception
ExecReturn(c) ==
  /\ cpc[c] = "exec_done"
  /\ cpc' = [cpc EXCEPT ![c] = "idle"]
  /\ cop' = [cop EXCEPT ![c] = "none"]
  /\ csleep' = [csleep EXCEPT ![c] = 0]
  /\ tfunc' = [tfunc EXCEPT ![c] = NoFunc]
  /\ tcalls' = [tcalls EXCEPT ![c] = 0]
  /\ tout' = [tout EXCEPT ![c] = NoOutcome]
  /\ UNCHANGED limv
  /\ UNCHANGED batchv
  /\ UNCHANGED <<latev, envv>>
  /\ UNCHANGED <<gov, loopv, ctimer, cjoin, waitv, hist, sbase>>

\* ----------------------------------------------- CPUManager.adaptive_sleep
\* mutant of AdaptiveSleepTime: the thresholds are inclusive
AdaptiveSleepTimeInclusive(base, usage) ==
  IF usage >= 90 THEN base * 3
  ELSE IF usage >= 80 THEN base * 2
  ELSE IF usage >= 70 THEN (base * 3) \div 2
  ELSE base

\* lines 138-145: sleep_time in milliseconds
AdaptiveSleepTime(base, usage) ==
  IF usage > 90 THEN base * 3
  ELSE IF usage > 80 THEN base * 2
  ELSE IF usage > 70 THEN (base * 3) \div 2
  ELSE base

\* lines 138-147: sleep_time is chosen from the stored reading and
\* time.sleep(sleep_time) begins.  The comparisons of lines 138-142 are taken
\* as one look at the reading.
AdaptiveSleepCall(c, base) ==
  /\ cpc[c] = "idle"
  /\ sbase' = [sbase EXCEPT ![c] = base]
  /\ csleep' = [csleep EXCEPT ![c] = AdaptiveSleepTime(base, current_cpu_usage)]
  /\ ctimer' = [ctimer EXCEPT ![c] =
                  SleepTicks(AdaptiveSleepTime(base, current_cpu_usage))]
  /\ cpc' = [cpc EXCEPT ![c] = "adaptive_sleep"]
  /\ UNCHANGED limv
  /\ UNCHANGED batchv
  /\ UNCHANGED <<latev, envv>>
  /\ UNCHANGED <<gov, loopv, cjoin, waitv, hist, cop, tfunc, tcalls, tout>>

\* line 147: the sleep is over, the call returns
AdaptiveSleepWake(c) ==
  /\ cpc[c] = "adaptive_sleep"
  /\ ctimer[c] = 0
  /\ cpc' = [cpc EXCEPT ![c] = "idle"]
  /\ sbase' = [sbase EXCEPT ![c] = 0]
  /\ csleep' = [csleep EXCEPT ![c] = 0]
  /\ UNCHANGED limv
  /\ UNCHANGED batchv
  /\ UNCHANGED <<latev, envv>>
  /\ UNCHANGED <<gov, loopv, ctimer, cjoin, waitv, hist, cop, tfunc, tcalls,
                 tout>>

\* ------------------------------------------------------- ProcessThrottler
\* mutant of CalculateMaxConcurrent: the floor of one is left out
CalculateMaxConcurrentNoFloor(cores) == cores \div 2

\* lines 171-173: max(1, cpu_count // 2)
CalculateMaxConcurrent(cores) ==
  IF cores \div 2 > 1 THEN cores \div 2 ELSE 1

\* lines 164-167: __init__ on a machine of n cores
ThrottlerInit(c, n) ==
  /\ cpc[c] = "idle"
  /\ core_count = 0
  /\ core_count' = n
  /\ max_concurrent' = CalculateMaxConcurrent(n)
  /\ process_count' = 0
  /\ UNCHANGED batchv
  /\ UNCHANGED <<latev, envv>>
  /\ UNCHANGED <<gov, loopv, callv, waitv, hist, execv, pread, cres, held,
                 misused, starts>>

\* mutant of CanStart: the governor is not asked
CanStartIgnoresThrottle(count, limit, throttle) == count < limit

\* lines 177-178
CanStart(count, limit, throttle) == count < limit /\ ~throttle

\* lines 175-178: can_start_process evaluates its expression
CanStartProcess(c) ==
  /\ cpc[c] = "idle"
  /\ core_count # 0
  /\ cres' = [cres EXCEPT ![c] =
       IF CanStart(process_count, max_concurrent, throttle_active)
         THEN "True" ELSE "False"]
  /\ cpc' = [cpc EXCEPT ![c] = "can_done"]
  /\ UNCHANGED batchv
  /\ UNCHANGED <<latev, envv>>
  /\ UNCHANGED <<gov, loopv, ctimer, cjoin, waitv, hist, execv, core_count,
                 max_concurrent, process_count, pread, held, misused,
                 starts>>

\* the caller has taken the value
CanStartReturn(c) ==
  /\ cpc[c] = "can_done"
  /\ cpc' = [cpc EXCEPT ![c] = "idle"]
  /\ cres' = [cres EXCEPT ![c] = "none"]
  /\ UNCHANGED batchv
  /\ UNCHANGED <<latev, envv>>
  /\ UNCHANGED <<gov, loopv, ctimer, cjoin, waitv, hist, execv, core_count,
                 max_concurrent, process_count, pread, held, misused,
                 starts>>

\* line 182: start_process begins with self.cpu_manager.wait_for_cpu()
StartProcessCall(c) ==
  /\ cpc[c] = "idle"
  /\ core_count # 0
  /\ starts < MaxStarts
  /\ starts' = starts + 1
  /\ cop' = [cop EXCEPT ![c] = "start_process"]
  /\ cpc' = [cpc EXCEPT ![c] = "wait_test"]
  /\ wtimeout' = [wtimeout EXCEPT ![c] = NoTimeout]
  /\ UNCHANGED batchv
  /\ UNCHANGED <<latev, envv>>
  /\ UNCHANGED <<gov, loopv, ctimer, cjoin, welapsed, wslept, wresult, hist,
                 csleep, sbase, tfunc, tcalls, tout, core_count,
                 max_concurrent, process_count, pread, cres, held, misused>>

\* line 183, self.process_count += 1: the wait has returned and the field is
\* read; no lock is held between this read and the write
StartProcessRead(c) ==
  /\ cpc[c] = "wait_done"
  /\ cop[c] = "start_process"
  /\ pread' = [pread EXCEPT ![c] = process_count]
  /\ cpc' = [cpc EXCEPT ![c] = "start_write"]
  /\ wtimeout' = [wtimeout EXCEPT ![c] = NoTimeout]
  /\ welapsed' = [welapsed EXCEPT ![c] = 0]
  /\ wslept' = [wslept EXCEPT ![c] = FALSE]
  /\ wresult' = [wresult EXCEPT ![c] = "none"]
  /\ UNCHANGED batchv
  /\ UNCHANGED <<latev, envv>>
  /\ UNCHANGED <<gov, loopv, ctimer, cjoin, hist, execv, core_count,
                 max_concurrent, process_count, cres, held, misused,
                 starts>>

\* mutant of StartProcessWrite: a start beyond max_concurrent is not counted
StartProcessWriteCapped(c) ==
  /\ cpc[c] = "start_write"
  /\ process_count' = IF pread[c] < max_concurrent THEN pread[c] + 1
                                                    ELSE pread[c]
  /\ held' = [held EXCEPT ![c] = @ + 1]
  /\ pread' = [pread EXCEPT ![c] = 0]
  /\ cpc' = [cpc EXCEPT ![c] = "idle"]
  /\ cop' = [cop EXCEPT ![c] = "none"]
  /\ UNCHANGED batchv
  /\ UNCHANGED <<latev, envv>>
  /\ UNCHANGED <<gov, loopv, ctimer, cjoin, waitv, hist, csleep, sbase, tfunc,
                 tcalls, tout, core_count, max_concurrent, cres, misused, starts>>

\* line 183: the sum is stored
StartProcessWrite(c) ==
  /\ cpc[c] = "start_write"
  /\ process_count' = pread[c] + 1
  /\ held' = [held EXCEPT ![c] = @ + 1]
  /\ pread' = [pread EXCEPT ![c] = 0]
  /\ cpc' = [cpc EXCEPT ![c] = "idle"]
  /\ cop' = [cop EXCEPT ![c] = "none"]
  /\ UNCHANGED batchv
  /\ UNCHANGED <<latev, envv>>
  /\ UNCHANGED <<gov, loopv, ctimer, cjoin, waitv, hist, csleep, sbase, tfunc,
                 tcalls, tout, core_count, max_concurrent, cres, misused, starts>>

\* mutant of EndValue: the floor of zero is left out
EndValueNoFloor(count) == count - 1

\* line 187: max(0, self.process_count - 1)
EndValue(count) == IF count - 1 > 0 THEN count - 1 ELSE 0

\* line 187: end_process reads the field
EndProcessRead(c) ==
  /\ cpc[c] = "idle"
  /\ core_count # 0
  /\ pread' = [pread EXCEPT ![c] = process_count]
  /\ misused' = (misused \/ held[c] = 0)
  /\ cpc' = [cpc EXCEPT ![c] = "end_write"]
  /\ UNCHANGED batchv
  /\ UNCHANGED <<latev, envv>>
  /\ UNCHANGED <<gov, loopv, ctimer, cjoin, waitv, hist, execv, core_count,
                 max_concurrent, process_count, cres, held, starts>>

\* line 187: the new value is stored
EndProcessWrite(c) ==
  /\ cpc[c] = "end_write"
  /\ process_count' = EndValue(pread[c])
  /\ held' = [held EXCEPT ![c] = IF @ > 0 THEN @ - 1 ELSE 0]
  /\ pread' = [pread EXCEPT ![c] = 0]
  /\ cpc' = [cpc EXCEPT ![c] = "idle"]
  /\ UNCHANGED batchv
  /\ UNCHANGED <<latev, envv>>
  /\ UNCHANGED <<gov, loopv, ctimer, cjoin, waitv, hist, execv, core_count,
                 max_concurrent, cres, misused, starts>>

\* ---------------------------- ProcessThrottler.throttled_batch_execute
\* mutant of BatchStep: None is not replaced
BatchStepNone(size, limit) == size

\* lines 197-198: batch_size = self.max_concurrent when it is None
BatchStep(size, limit) == IF size = NoBatchSize THEN limit ELSE size

\* mutant of InBatch: a batch holds one entry
InBatchOne(k, i, step, ts) == k = i /\ k <= Len(ts)

\* line 202: entry k belongs to the batch that begins at place i
InBatch(k, i, step, ts) == k >= i /\ k < i + step /\ k <= Len(ts)

\* lines 197-200: the call begins (one caller runs batches)
BatchCall(c, ts, size) ==
  /\ cpc[c] = "idle"
  /\ core_count # 0
  /\ cop' = [cop EXCEPT ![c] = "batch"]
  /\ cpc' = [cpc EXCEPT ![c] = "batch_range"]
  /\ tasks' = ts
  /\ bsize' = size
  /\ bstep' = BatchStep(size, max_concurrent)
  /\ bi' = 1
  /\ bj' = 1
  /\ results' = <<>>
  /\ bout' = "none"
  /\ bran' = <<>>
  /\ bwaits' = 0
  /\ UNCHANGED <<latev, envv>>
  /\ UNCHANGED <<gov, loopv, ctimer, cjoin, waitv, hist, csleep, sbase, tfunc,
                 tcalls, tout, limv>>

\* lines 201-205 and 218: range(0, len(tasks), batch_size) raises ValueError
\* for a step of 0 and is empty for a negative step; when a batch is left,
\* it begins with self.cpu_manager.wait_for_cpu(), otherwise results is
\* returned
BatchRange(c) ==
  /\ cpc[c] = "batch_range"
  /\ IF bstep = 0
       THEN /\ bout' = "ValueError"
            /\ cpc' = [cpc EXCEPT ![c] = "batch_done"]
            /\ UNCHANGED <<wtimeout, bj, bwaits>>
       ELSE IF bstep < 0 \/ bi > Len(tasks)
         THEN /\ bout' = "returned"
              /\ cpc' = [cpc EXCEPT ![c] = "batch_done"]
              /\ UNCHANGED <<wtimeout, bj, bwaits>>
         ELSE /\ cpc' = [cpc EXCEPT ![c] = "wait_test"]
              /\ wtimeout' = [wtimeout EXCEPT ![c] = NoTimeout]
              /\ bj' = bi
              /\ bwaits' = bwaits + 1
              /\ UNCHANGED bout
  /\ UNCHANGED <<latev, envv>>
  /\ UNCHANGED <<gov, loopv, ctimer, cjoin, welapsed, wslept, wresult, hist,
                 execv, limv, tasks, bsize, bstep, bi, results, bran>>

\* line 205: wait_for_cpu has returned, the tasks of the batch follow
BatchWaited(c) ==
  /\ cpc[c] = "wait_done"
  /\ cop[c] = "batch"
  /\ cpc' = [cpc EXCEPT ![c] = "batch_task"]
  /\ wtimeout' = [wtimeout EXCEPT ![c] = NoTimeout]
  /\ welapsed' = [welapsed EXCEPT ![c] = 0]
  /\ wslept' = [wslept EXCEPT ![c] = FALSE]
  /\ wresult' = [wresult EXCEPT ![c] = "none"]
  /\ UNCHANGED <<gov, loopv, ctimer, cjoin, hist, workv>>

\* mutant of TaskOutcome: an entry that is not callable is called and the
\* call raises TypeError
TaskOutcomeStrict(kind) ==
  IF kind = "returns" THEN "value" ELSE "exception"

\* mutant of TaskOutcome: an exception of a task is swallowed
TaskOutcomeSwallowed(kind) ==
  IF kind = "returns" THEN "value" ELSE "skipped"

\* lines 209-210: an entry that is not callable is passed over; a call of a
\* task ends with its value or with its exception
TaskOutcome(kind) ==
  IF kind = "returns" THEN "value"
  ELSE IF kind = "raises" THEN "exception"
  ELSE "skipped"

\* lines 208-213: the next entry of the batch.  A task that returns has its
\* result appended and adaptive_sleep(0.2) begins; an exception of a task
\* leaves the call; an entry that is not callable is passed over.
BatchTask(c) ==
  /\ cpc[c] = "batch_task"
  /\ LET out == TaskOutcome(tasks[bj]) IN
       /\ bran' = IF tasks[bj] = "not_callable" THEN bran ELSE Append(bran, bj)
       /\ IF out = "value"
            THEN /\ results' = Append(results, bj)
                 /\ sbase' = [sbase EXCEPT ![c] = TaskSleepMs]
                 /\ csleep' = [csleep EXCEPT ![c] =
                      AdaptiveSleepTime(TaskSleepMs, current_cpu_usage)]
                 /\ ctimer' = [ctimer EXCEPT ![c] =
                      SleepTicks(AdaptiveSleepTime(TaskSleepMs, current_cpu_usage))]
                 /\ cpc' = [cpc EXCEPT ![c] = "batch_task_sleep"]
                 /\ UNCHANGED <<bj, bout>>
            ELSE IF out = "exception"
              THEN /\ bout' = "raised"
                   /\ cpc' = [cpc EXCEPT ![c] = "batch_done"]
                   /\ UNCHANGED <<results, sbase, csleep, ctimer, bj>>
              ELSE /\ bj' = bj + 1
                   /\ cpc' = [cpc EXCEPT ![c] =
                        IF InBatch(bj + 1, bi, bstep, tasks)
                          THEN "batch_task" ELSE "batch_end"]
                   /\ UNCHANGED <<results, sbase, csleep, ctimer, bout>>
  /\ UNCHANGED <<latev, envv>>
  /\ UNCHANGED <<gov, loopv, cjoin, waitv, hist, cop, tfunc, tcalls, tout,
                 limv, tasks, bsize, bstep, bi, bwaits>>

\* line 213: adaptive_sleep(0.2) is over, the next task of the batch follows
\* at once
BatchTaskWake(c) ==
  /\ cpc[c] = "batch_task_sleep"
  /\ ctimer[c] = 0
  /\ bj' = bj + 1
  /\ cpc' = [cpc EXCEPT ![c] =
       IF InBatch(bj + 1, bi, bstep, tasks) THEN "batch_task" ELSE "batch_end"]
  /\ sbase' = [sbase EXCEPT ![c] = 0]
  /\ csleep' = [csleep EXCEPT ![c] = 0]
  /\ UNCHANGED <<latev, envv>>
  /\ UNCHANGED <<gov, loopv, ctimer, cjoin, waitv, hist, cop, tfunc, tcalls,
                 tout, limv, tasks, bsize, bstep, bi, results, bout, bran,
                 bwaits>>

\* line 216: the batch is over, adaptive_sleep(1.0) begins
BatchSleep(c) ==
  /\ cpc[c] = "batch_end"
  /\ sbase' = [sbase EXCEPT ![c] = BatchSleepMs]
  /\ csleep' = [csleep EXCEPT ![c] =
       AdaptiveSleepTime(BatchSleepMs, current_cpu_usage)]
  /\ ctimer' = [ctimer EXCEPT ![c] =
       SleepTicks(AdaptiveSleepTime(BatchSleepMs, current_cpu_usage))]
  /\ cpc' = [cpc EXCEPT ![c] = "batch_sleep"]
  /\ UNCHANGED <<latev, envv>>
  /\ UNCHANGED <<gov, loopv, cjoin, waitv, hist, cop, tfunc, tcalls, tout,
                 limv, batchv>>

\* lines 216 and 201: adaptive_sleep(1.0) is over, the loop goes on
BatchWake(c) ==
  /\ cpc[c] = "batch_sleep"
  /\ ctimer[c] = 0
  /\ bi' = bi + bstep
  /\ cpc' = [cpc EXCEPT ![c] = "batch_range"]
  /\ sbase' = [sbase EXCEPT ![c] = 0]
  /\ csleep' = [csleep EXCEPT ![c] = 0]
  /\ UNCHANGED <<latev, envv>>
  /\ UNCHANGED <<gov, loopv, ctimer, cjoin, waitv, hist, cop, tfunc, tcalls,
                 tout, limv, tasks, bsize, bstep, bj, results, bout, bran,
                 bwaits>>

\* the caller has taken the list or the exception
BatchReturn(c) ==
  /\ cpc[c] = "batch_done"
  /\ cpc' = [cpc EXCEPT ![c] = "idle"]
  /\ cop' = [cop EXCEPT ![c] = "none"]
  /\ tasks' = <<>>
  /\ bsize' = NoBatchSize
  /\ bstep' = 0
  /\ bi' = 0
  /\ bj' = 0
  /\ results' = <<>>
  /\ bout' = "none"
  /\ bran' = <<>>
  /\ bwaits' = 0
  /\ UNCHANGED <<latev, envv>>
  /\ UNCHANGED <<gov, loopv, ctimer, cjoin, waitv, hist, csleep, sbase, tfunc,
                 tcalls, tout, limv>>

\* ------------------------------------------------ CPUManager.get_cpu_stats
\* mutant of CpuStats: the ceiling is reported as the usage
CpuStatsCeiling(usage, max, throttle) ==
  [current_usage |-> max, max_allowed |-> max, throttle_active |-> throttle]

\* lines 123-129: the dict that is returned; cpu_count and cpu_freq are
\* readings of the machine and are left out
CpuStats(usage, max, throttle) ==
  [current_usage |-> usage, max_allowed |-> max, throttle_active |-> throttle]

\* line 124: the entries are evaluated in order; current_cpu_usage is read
GetStatsUsage(c) ==
  /\ cpc[c] = "idle"
  /\ stats' = [stats EXCEPT ![c] =
       CpuStats(current_cpu_usage, NoStats.max_allowed, NoStats.throttle_active)]
  /\ cpc' = [cpc EXCEPT ![c] = "stats_rest"]
  /\ UNCHANGED <<singv, execv, limv, batchv, envv>>
  /\ UNCHANGED <<gov, loopv, ctimer, cjoin, waitv, hist>>

\* mutant of GetStatsRest: the call clears the throttle flag as it returns
GetStatsRestClears(c) ==
  /\ cpc[c] = "stats_rest"
  /\ stats' = [stats EXCEPT ![c] =
       CpuStats(stats[c].current_usage, max_cpu_percent, throttle_active)]
  /\ throttle_active' = FALSE
  /\ cpc' = [cpc EXCEPT ![c] = "idle"]
  /\ UNCHANGED <<singv, execv, limv, batchv, envv>>
  /\ UNCHANGED <<max_cpu_percent, check_interval, monitoring,
                 current_cpu_usage, monitor_thread>>
  /\ UNCHANGED <<loopv, ctimer, cjoin, waitv, hist>>

\* lines 125-129: max_cpu_percent and throttle_active are read, the dict is
\* returned
GetStatsRest(c) ==
  /\ cpc[c] = "stats_rest"
  /\ stats' = [stats EXCEPT ![c] =
       CpuStats(stats[c].current_usage, max_cpu_percent, throttle_active)]
  /\ cpc' = [cpc EXCEPT ![c] = "idle"]
  /\ UNCHANGED <<singv, execv, limv, batchv, envv>>
  /\ UNCHANGED <<gov, loopv, ctimer, cjoin, waitv, hist>>

\* ------------------------------------------------------- get_cpu_manager
\* The module keeps one global, _cpu_manager, and get_cpu_manager builds a
\* CPUManager when it reads None there.  No lock is held, so the calls of
\* two threads interleave line by line.  insts holds the objects that were
\* built; of an object only the ceiling, the monitoring flag and the number
\* of sampling threads started for it matter here.

\* CPUManager.__init__ for the object get_cpu_manager builds
NewManager(max_cpu) ==
  [max_cpu_percent |-> max_cpu, monitoring |-> FALSE, threads |-> 0]

\* line 226: if _cpu_manager is None
IsNone(ref) == ref = NoInstance

\* line 226: the call reads the global
GetCheck(c, m) ==
  /\ cpc[c] = "idle"
  /\ garg' = [garg EXCEPT ![c] = m]
  /\ cpc' = [cpc EXCEPT ![c] =
       IF IsNone(manager_ref) THEN "get_create" ELSE "get_return"]
  /\ UNCHANGED <<manager_ref, insts, gtarget, got, first_got, stats>>
  /\ UNCHANGED <<execv, limv, batchv, envv>>
  /\ UNCHANGED <<gov, loopv, ctimer, cjoin, waitv, hist>>

\* line 227: a CPUManager is built and stored in the global
GetCreate(c) ==
  /\ cpc[c] = "get_create"
  /\ insts' = Append(insts, NewManager(garg[c]))
  /\ manager_ref' = Len(insts) + 1
  /\ cpc' = [cpc EXCEPT ![c] = "get_load"]
  /\ UNCHANGED <<garg, gtarget, got, first_got, stats>>
  /\ UNCHANGED <<execv, limv, batchv, envv>>
  /\ UNCHANGED <<gov, loopv, ctimer, cjoin, waitv, hist>>

\* line 228: the global is read again for the call of start_monitoring
GetLoad(c) ==
  /\ cpc[c] = "get_load"
  /\ gtarget' = [gtarget EXCEPT ![c] = manager_ref]
  /\ cpc' = [cpc EXCEPT ![c] = "get_start_check"]
  /\ UNCHANGED <<manager_ref, insts, garg, got, first_got, stats>>
  /\ UNCHANGED <<execv, limv, batchv, envv>>
  /\ UNCHANGED <<gov, loopv, ctimer, cjoin, waitv, hist>>

\* line 228, start_monitoring line 39: the flag of that object is read
GetStartCheck(c) ==
  /\ cpc[c] = "get_start_check"
  /\ cpc' = [cpc EXCEPT ![c] =
       IF StartGuard(insts[gtarget[c]].monitoring)
         THEN "get_launch" ELSE "get_return"]
  /\ UNCHANGED <<singv, stats>>
  /\ UNCHANGED <<execv, limv, batchv, envv>>
  /\ UNCHANGED <<gov, loopv, ctimer, cjoin, waitv, hist>>

\* start_monitoring lines 40-42: the flag is set and a thread is started
GetLaunch(c) ==
  /\ cpc[c] = "get_launch"
  /\ insts' = [insts EXCEPT ![gtarget[c]] =
       [@ EXCEPT !.monitoring = TRUE, !.threads = @ + 1]]
  /\ cpc' = [cpc EXCEPT ![c] = "get_return"]
  /\ UNCHANGED <<manager_ref, garg, gtarget, got, first_got, stats>>
  /\ UNCHANGED <<execv, limv, batchv, envv>>
  /\ UNCHANGED <<gov, loopv, ctimer, cjoin, waitv, hist>>

\* line 229: the global is read a third time and returned
GetReturn(c) ==
  /\ cpc[c] = "get_return"
  /\ got' = [got EXCEPT ![c] = manager_ref]
  /\ first_got' = IF first_got = NoInstance THEN manager_ref ELSE first_got
  /\ cpc' = [cpc EXCEPT ![c] = "idle"]
  /\ UNCHANGED <<manager_ref, insts, garg, gtarget, stats>>
  /\ UNCHANGED <<execv, limv, batchv, envv>>
  /\ UNCHANGED <<gov, loopv, ctimer, cjoin, waitv, hist>>

\* ------------------------------------------------------------------ time
\* a thread that has a step to take now
LoopUrgent(l) ==
  \/ lpc[l] \in {"while", "set"}
  \/ lpc[l] \in {"measure", "sleep"} /\ ltimer[l] = 0

\* mutant of CallerUrgent: a thread inside a call keeps the processor, so
\* no time passes for the others until the call has returned
CallerUrgentBusy(c) == cpc[c] # "idle"

CallerUrgent(c) ==
  \/ cpc[c] \in {"start_launch", "wait_test", "wait_backoff", "wait_done"}
  \/ cpc[c] \in {"exec_done", "can_done", "start_write", "end_write"}
  \/ cpc[c] \in {"batch_range", "batch_task", "batch_end", "batch_done"}
  \/ cpc[c] \in {"stats_rest"}
  \/ cpc[c] \in {"batch_task_sleep", "batch_sleep"} /\ ctimer[c] = 0
  \/ cpc[c] \in {"exec_sleep", "adaptive_sleep"} /\ ctimer[c] = 0
  \/ cpc[c] = "wait_sleep" /\ ctimer[c] = 0
  \/ cpc[c] = "stop_join" /\ (ctimer[c] = 0 \/ Dead(cjoin[c]))

Urgent == (\E l \in Loops : LoopUrgent(l)) \/ (\E c \in Callers : CallerUrgent(c))

\* the call reads the clock only when its timeout is truthy (line 81)
Timing(c) ==
  /\ cpc[c] \in {"wait_test", "wait_backoff", "wait_sleep"}
  /\ wtimeout[c] > 0
  /\ welapsed[c] < wtimeout[c]

Dec(n) == IF n > 0 THEN n - 1 ELSE 0

RECURSIVE HeldBy(_)
\* the start_process calls the callers in S have made and not ended
HeldBy(S) ==
  IF S = {} THEN 0
  ELSE LET c == CHOOSE x \in S : TRUE IN held[c] + HeldBy(S \ {c})

\* one sampling interval plus the join timeout of stop_monitoring, in ticks
StopBound == check_interval + Ticks(JoinTimeoutMs)

\* the ages of a drop of the load and of a timed call are counted up to
\* these numbers of ticks
DropBound == 2 * (check_interval + Ticks(MeasureMs))
ClockBound == MaxTimeout + 2 * Ticks(SleepTime(100))

\* half a second passes: every running sleep, measurement and join gets
\* shorter, and time.time() - start_time of every wait_for_cpu call grows
\* (it is counted up to the call's timeout)
Tick ==
  /\ ~Urgent
  /\ \/ \E l \in Loops : ltimer[l] > 0
     \/ \E c \in Callers : ctimer[c] > 0
  /\ ltimer' = [l \in Loops |-> Dec(ltimer[l])]
  /\ ctimer' = [c \in Callers |-> Dec(ctimer[c])]
  /\ welapsed' = [c \in Callers |->
                    IF Timing(c) THEN welapsed[c] + 1 ELSE welapsed[c]]
  /\ stop_age' = IF stop_age # NoStop /\ stop_age <= StopBound
                    THEN stop_age + 1 ELSE stop_age
  /\ low_age' = IF low_age # NoDrop /\ low_age <= DropBound
                   THEN low_age + 1 ELSE low_age
  /\ wclock' = [c \in Callers |->
                  IF wclock[c] # NoClock /\ wclock[c] <= ClockBound
                    THEN wclock[c] + 1 ELSE wclock[c]]
  /\ UNCHANGED <<jobv, sys_low, wlast>>
  /\ UNCHANGED <<gov, lpc, lcond, cpc, cjoin, wtimeout, wslept, wresult,
                 below_stored>>

\* ------------------------------------------------------- the specification
LoopStep(l) ==
  \/ LoopWhile(l)
  \/ \E v \in Samples : LoopSample(l, v)
  \/ LoopSampleFail(l)
  \/ LoopSetFlag(l)

CallerStep(c) ==
  \/ \E l \in Loops : StartLaunch(c, l)
  \/ StopJoin(c)
  \/ WaitTest(c)
  \/ WaitBackoff(c)
  \/ WaitWake(c)
  \/ WaitReturn(c)

Call(c) ==
  \/ StartCheck(c)
  \/ StopSet(c)
  \/ c \in Waiters /\ \E t \in Timeouts : WaitCall(c, t)

Next ==
  \/ \E l \in Loops : LoopStep(l)
  \/ \E c \in Callers : CallerStep(c)
  \/ \E c \in Callers : Call(c)
  \/ Tick

Spec == Init /\ [][Next]_vars

\* fairness: every thread that can take a step eventually takes it, and time
\* keeps passing (Tick is disabled while a thread has a step to take now,
\* hence strong fairness)
FairSpec ==
  /\ Spec
  /\ \A l \in Loops : WF_vars(LoopStep(l))
  /\ \A c \in Callers : WF_vars(CallerStep(c))
  /\ SF_vars(Tick)

\* ------------------------------------- the callers of a running governor
\* get_cpu_manager (lines 222-230) has built the CPUManager and called
\* start_monitoring: the thread of slot 1 is about to enter its loop
ManagerStarted ==
  /\ max_cpu_percent \in MaxCpuChoices
  /\ check_interval \in CheckIntervals
  /\ monitoring = TRUE
  /\ current_cpu_usage = 0
  /\ throttle_active = FALSE
  /\ monitor_thread = 1
  /\ lpc = [l \in Loops |-> IF l = 1 THEN "while" ELSE "none"]
  /\ ltimer = [l \in Loops |-> 0]
  /\ lcond = [l \in Loops |-> FALSE]
  /\ cpc = [c \in Callers |-> "idle"]
  /\ ctimer = [c \in Callers |-> 0]
  /\ cjoin = [c \in Callers |-> NoThread]
  /\ wtimeout = [c \in Callers |-> NoTimeout]
  /\ welapsed = [c \in Callers |-> 0]
  /\ wslept = [c \in Callers |-> FALSE]
  /\ wresult = [c \in Callers |-> "none"]
  /\ below_stored = FALSE
  /\ stop_age = NoStop

\* the sampling loop with the readings at and around the thresholds of
\* adaptive_sleep
FineLoopStep(l) ==
  \/ LoopWhile(l)
  \/ \E v \in FineSamples : LoopSample(l, v)
  \/ LoopSampleFail(l)
  \/ LoopSetFlag(l)

\* one caller uses throttled_execute and adaptive_sleep
ExecInit == ManagerStarted /\ NoWork

ExecStep(c) ==
  \/ WaitTest(c)
  \/ WaitBackoff(c)
  \/ WaitWake(c)
  \/ ExecFunc(c)
  \/ ExecWake(c)
  \/ ExecReturn(c)
  \/ AdaptiveSleepWake(c)

ExecCalls(c) ==
  \/ \E f \in Funcs : ExecCall(c, f)
  \/ \E base \in BaseSleeps : AdaptiveSleepCall(c, base)

ExecNext ==
  \/ \E l \in Loops : FineLoopStep(l)
  \/ \E c \in Workers : ExecStep(c)
  \/ \E c \in Workers : ExecCalls(c)
  \/ Tick

ExecSpec == ExecInit /\ [][ExecNext]_vars

\* ------------------------------------ the caller of a ProcessThrottler
\* one caller builds a ProcessThrottler on the running governor and uses it
LimInit == ManagerStarted /\ NoWork

LimStep(c) ==
  \/ WaitTest(c)
  \/ WaitBackoff(c)
  \/ WaitWake(c)
  \/ StartProcessRead(c)
  \/ StartProcessWrite(c)
  \/ EndProcessWrite(c)
  \/ CanStartReturn(c)

LimCalls(c) ==
  \/ \E n \in CoreCounts : ThrottlerInit(c, n)
  \/ StartProcessCall(c)
  \/ EndProcessRead(c)
  \/ CanStartProcess(c)

LimNext ==
  \/ \E l \in Loops : LoopStep(l)
  \/ \E c \in Workers : LimStep(c)
  \/ \E c \in Workers : LimCalls(c)
  \/ Tick

LimSpec == LimInit /\ [][LimNext]_vars

\* -------------------- concurrent start_process and end_process calls
\* every caller uses the ProcessThrottler; its CPUManager has been built and
\* not started, so throttling is inactive and every wait_for_cpu returns at
\* its first test
RaceStep(c) ==
  \/ WaitTest(c)
  \/ StartProcessRead(c)
  \/ StartProcessWrite(c)
  \/ EndProcessWrite(c)

RaceCalls(c) ==
  \/ \E n \in CoreCounts : ThrottlerInit(c, n)
  \/ StartProcessCall(c)
  \/ EndProcessRead(c)

RaceNext ==
  \/ \E c \in Callers : RaceStep(c)
  \/ \E c \in Callers : RaceCalls(c)

RaceSpec == Init /\ [][RaceNext]_vars

\* ------------------------------------------- the caller of a batch
\* one caller builds a ProcessThrottler on the running governor and gives
\* it task lists
BatchStepOf(c) ==
  \/ WaitTest(c)
  \/ WaitBackoff(c)
  \/ WaitWake(c)
  \/ BatchRange(c)
  \/ BatchWaited(c)
  \/ BatchTask(c)
  \/ BatchTaskWake(c)
  \/ BatchSleep(c)
  \/ BatchWake(c)
  \/ BatchReturn(c)

BatchCalls(c) ==
  \/ \E n \in BatchCores : ThrottlerInit(c, n)
  \/ /\ cpc[c] = "idle"
     /\ \E ts \in TaskLists, size \in BatchSizes : BatchCall(c, ts, size)

BatchNext ==
  \/ \E l \in Loops : LoopStep(l)
  \/ \E c \in Workers : BatchStepOf(c)
  \/ \E c \in Workers : BatchCalls(c)
  \/ Tick

BatchSpec == LimInit /\ [][BatchNext]_vars

\* --------------------------- the callers of a governor never started
\* The CPUManager is built and start_monitoring is not called; two threads
\* use the operations that do not start it.  Usage stays 0, so wait_for_cpu
\* finds the CPU safe at its first test and never sleeps.
IdleStep(c) ==
  \/ WaitTest(c)
  \/ WaitReturn(c)
  \/ ExecFunc(c)
  \/ ExecWake(c)
  \/ ExecReturn(c)
  \/ AdaptiveSleepWake(c)
  \/ GetStatsRest(c)

IdleCalls(c) ==
  \/ \E t \in Timeouts : WaitCall(c, t)
  \/ \E f \in Funcs : ExecCall(c, f)
  \/ \E base \in BaseSleeps : AdaptiveSleepCall(c, base)
  \/ GetStatsUsage(c)

IdleNext ==
  \/ \E c \in Callers : IdleStep(c)
  \/ \E c \in Callers : IdleCalls(c)
  \/ Tick

IdleSpec == Init /\ [][IdleNext]_vars

\* ---------------------------- every reading operation on one governor
\* One thread uses all the operations that read the governor, on a governor
\* whose loop is sampling and reads a load below or above the ceiling (the
\* measurement does not fail).  The
\* batches are the lists of at most one entry, and the thread starts one
\* process and ends it.
FrameSamples == {50, 90}
FrameTaskLists == UNION {[1..n -> TaskKinds] : n \in 0..1}
FrameBatchSizes == {NoBatchSize, 1}

FrameFuncs == {<<k, 1>> : k \in {"returns", "raises"}}
FrameBaseSleeps == {TaskSleepMs}

FrameLoopStep(l) ==
  \/ LoopWhile(l)
  \/ \E v \in FrameSamples : LoopSample(l, v)
  \/ LoopSetFlag(l)

FrameStep(c) ==
  \/ WaitTest(c)
  \/ WaitBackoff(c)
  \/ WaitWake(c)
  \/ WaitReturn(c)
  \/ ExecFunc(c)
  \/ ExecWake(c)
  \/ ExecReturn(c)
  \/ AdaptiveSleepWake(c)
  \/ GetStatsRest(c)
  \/ StartProcessRead(c)
  \/ StartProcessWrite(c)
  \/ EndProcessWrite(c)
  \/ CanStartReturn(c)
  \/ BatchRange(c)
  \/ BatchWaited(c)
  \/ BatchTask(c)
  \/ BatchTaskWake(c)
  \/ BatchSleep(c)
  \/ BatchWake(c)
  \/ BatchReturn(c)

FrameCalls(c) ==
  \/ \E t \in Timeouts : WaitCall(c, t)
  \/ \E f \in FrameFuncs : ExecCall(c, f)
  \/ \E base \in FrameBaseSleeps : AdaptiveSleepCall(c, base)
  \/ GetStatsUsage(c)
  \/ \E n \in BatchCores : ThrottlerInit(c, n)
  \/ starts = 0 /\ StartProcessCall(c)
  \/ process_count > 0 /\ EndProcessRead(c)
  \/ CanStartProcess(c)
  \/ /\ cpc[c] = "idle"
     /\ \E ts \in FrameTaskLists, size \in FrameBatchSizes :
          BatchCall(c, ts, size)

FrameNext ==
  \/ \E l \in Loops : FrameLoopStep(l)
  \/ \E c \in Workers : FrameStep(c)
  \/ \E c \in Workers : FrameCalls(c)
  \/ Tick

FrameSpec == LimInit /\ [][FrameNext]_vars

\* --------------------------------- the load drops below the ceiling
\* The load of the machine is what psutil.cpu_percent(interval=1) measures
\* at line 56: the mean over the second the call blocks for.  While the
\* flag is set the load drops below the ceiling and stays there; a
\* measurement whose second began at or after the drop reads a value below
\* the ceiling, one whose second includes the drop can read either.
Drop ==
  /\ monitoring
  /\ throttle_active
  /\ ~sys_low
  /\ sys_low' = TRUE
  /\ low_age' = 0
  /\ UNCHANGED <<jobv, wclock, wlast>>
  /\ UNCHANGED <<gov, loopv, callv, waitv, hist>>

\* the readings line 56 can return
LowReading(v) ==
  (sys_low /\ low_age >= Ticks(MeasureMs)) => v < max_cpu_percent

DropLoopStep(l) ==
  \/ LoopWhile(l)
  \/ \E v \in Samples : LowReading(v) /\ LoopSample(l, v)
  \/ LoopSampleFail(l)
  \/ LoopSetFlag(l)

DropNext ==
  \/ \E l \in Loops : DropLoopStep(l)
  \/ Drop
  \/ Tick

DropSpec == ExecInit /\ [][DropNext]_vars

\* ----------------------------------- callers blocked beside the loop
\* Two threads call wait_for_cpu without a timeout and throttled_execute on
\* a running governor and block there while the flag is set.
BlockStep(c) ==
  \/ WaitTest(c)
  \/ WaitBackoff(c)
  \/ WaitWake(c)
  \/ WaitReturn(c)
  \/ ExecFunc(c)
  \/ ExecWake(c)
  \/ ExecReturn(c)

BlockCalls(c) ==
  \/ WaitCall(c, NoTimeout)
  \/ \E f \in FrameFuncs : ExecCall(c, f)

BlockNext ==
  \/ \E l \in Loops : LoopStep(l)
  \/ \E c \in Callers : BlockStep(c)
  \/ \E c \in Callers : BlockCalls(c)
  \/ Tick

BlockSpec == ExecInit /\ [][BlockNext]_vars

\* the threads are scheduled, time passes, and the threads make a finite
\* number of calls
BlockFairSpec ==
  /\ BlockSpec
  /\ \A l \in Loops : WF_vars(LoopStep(l))
  /\ \A c \in Callers : WF_vars(BlockStep(c))
  /\ SF_vars(Tick)
  /\ <>[][~(\E c \in Callers : BlockCalls(c))]_vars

\* ------------------------------- wait_for_cpu against a deadline
\* The sampler reads a load at or above the ceiling for good; one thread
\* calls wait_for_cpu with a timeout of 0.5 s, 1 s, ... and is timed.
HighReading(v) == v >= max_cpu_percent
ClockTimeouts == 1..(MaxTimeout + 2)

HighLoopStep(l) ==
  \/ LoopWhile(l)
  \/ \E v \in Samples : HighReading(v) /\ LoopSample(l, v)
  \/ LoopSampleFail(l)
  \/ LoopSetFlag(l)

TimeoutStep(c) ==
  \/ WaitTest(c)
  \/ WaitBackoff(c)
  \/ WaitWake(c)
  \/ TimedWaitReturn(c)

TimeoutCalls(c) == \E t \in ClockTimeouts : TimedWaitCall(c, t)

TimeoutNext ==
  \/ \E l \in Loops : HighLoopStep(l)
  \/ \E c \in Waiters : TimeoutStep(c)
  \/ \E c \in Waiters : TimeoutCalls(c)
  \/ Tick

TimeoutSpec == ExecInit /\ [][TimeoutNext]_vars

\* ------------------------------------- concurrent get_cpu_manager calls
\* Two threads call get_cpu_manager again and again, as the modules of the
\* repository do, each with one of the ceilings they pass.
GetStep(c) ==
  \/ GetCreate(c)
  \/ GetLoad(c)
  \/ GetStartCheck(c)
  \/ GetLaunch(c)
  \/ GetReturn(c)

GetCalls(c) == \E m \in MaxCpuChoices : GetCheck(c, m)

SingletonNext ==
  \/ \E c \in Callers : GetStep(c)
  \/ \E c \in Callers : GetCalls(c)

SingletonSpec == Init /\ [][SingletonNext]_vars

\* the sampling threads get_cpu_manager has started, over all objects
RECURSIVE ThreadsOf(_)
ThreadsOf(n) == IF n = 0 THEN 0 ELSE insts[n].threads + ThreadsOf(n - 1)

\* ================================================================ claims
\* caller c returns from wait_for_cpu in this step
Returns(c) == cpc[c] # "wait_done" /\ cpc'[c] = "wait_done"

\* C1: immediately after a sampling loop has stored a sample and written the
\* flag, throttle_active = (current_cpu_usage >= max_cpu_percent).
C1_FlagMatchesSample ==
  [][\A l \in Loops :
       (lpc[l] = "set" /\ lpc'[l] = "sleep") =>
         (throttle_active' = (current_cpu_usage' >= max_cpu_percent'))]_vars

\* C2: wait_for_cpu returns True only on reading throttle_active false;
\* it returns False only when a timeout was given, at least that long has
\* elapsed and the flag was read true; with timeout None it returns only True.
C2_WaitResult ==
  [][\A c \in Callers :
       Returns(c) =>
         /\ wresult'[c] \in {"True", "False"}
         /\ wresult'[c] = "True" => ~throttle_active
         /\ wresult'[c] = "False" =>
              /\ wtimeout[c] # NoTimeout
              /\ welapsed[c] >= wtimeout[c]
              /\ throttle_active
         /\ wtimeout[c] = NoTimeout => wresult'[c] = "True"]_vars

\* C2 witness: a call has returned False on its deadline
C2_Witness ==
  \E c \in Callers :
    /\ cpc[c] = "wait_done"
    /\ wresult[c] = "False"
    /\ wtimeout[c] > 0
    /\ welapsed[c] >= wtimeout[c]

\* C3: while throttle_active stays true, a wait_for_cpu call with a finite
\* timeout t >= 0 eventually returns False.
C3_FiniteTimeoutReturns ==
  \A c \in Waiters :
    (cpc[c] = "wait_test" /\ wtimeout[c] # NoTimeout)
      ~> (~throttle_active \/ (cpc[c] = "wait_done" /\ wresult[c] = "False"))

\* C4: a wait_for_cpu call that was blocked returns True only after a sample
\* below the ceiling has been stored since throttle_active was set.
C4_TrueOnlyAfterLowSample ==
  [][\A c \in Callers :
       (Returns(c) /\ wslept[c] /\ wresult'[c] = "True") => below_stored]_vars

\* C5: a call that finds throttle_active false at its first test returns True
\* at once, without a sleep, whatever its timeout.
C5_NoSleepWhenClear ==
  [][\A c \in Callers :
       (cpc[c] = "wait_test" /\ ~wslept[c] /\ ~throttle_active
          /\ cpc'[c] # "wait_test") =>
         /\ cpc'[c] = "wait_done"
         /\ wresult'[c] = "True"
         /\ ~wslept'[c]
         /\ ctimer'[c] = 0]_vars

\* C5 witness: a governor that was never started, a call with a timeout,
\* returned True without a sleep
C5_Witness ==
  \E c \in Callers :
    /\ cpc[c] = "wait_done"
    /\ wresult[c] = "True"
    /\ ~wslept[c]
    /\ wtimeout[c] = 0
    /\ monitor_thread = NoThread

\* C6: the sleep of an iteration is 2.0 s for excess > 20, 1.0 s for
\* 10 < excess <= 20 and 0.5 s otherwise, excess being current_cpu_usage -
\* max_cpu_percent as read in that iteration.
C6_Backoff ==
  [][\A c \in Callers :
       (cpc[c] = "wait_backoff" /\ cpc'[c] = "wait_sleep") =>
         LET excess == current_cpu_usage - max_cpu_percent
             sleep_ms == ctimer'[c] * 500
         IN /\ excess > 20 => sleep_ms = 2000
            /\ (10 < excess /\ excess <= 20) => sleep_ms = 1000
            /\ excess <= 10 => sleep_ms = 500
            /\ excess = 25 => sleep_ms = 2000
            /\ excess = 15 => sleep_ms = 1000
            /\ excess = 5 => sleep_ms = 500
            /\ excess = 20 => sleep_ms = 1000
            /\ excess = 10 => sleep_ms = 500]_vars

\* C6 witness: an iteration with excess exactly 20 sleeps 1.0 s
C6_Witness ==
  \E c \in Callers :
    /\ cpc[c] = "wait_sleep"
    /\ ctimer[c] = 2
    /\ current_cpu_usage - max_cpu_percent = 20

\* C7: at most one sampling loop runs for a manager.
C7_SingleLoop == Cardinality(LiveLoops) <= 1

\* C8: start_monitoring goes on to launch only from Stopped, a launch sets
\* monitoring and starts exactly one loop, loops are started by nothing else,
\* and stop_monitoring clears monitoring and changes nothing else of the
\* governor (nothing at all when it is Stopped).
C8_Lifecycle ==
  [][/\ \A c \in Callers :
          /\ (cpc[c] # "start_launch" /\ cpc'[c] = "start_launch") =>
               (~monitoring /\ UNCHANGED <<gov, loopv>>)
          /\ (cpc[c] = "start_launch" /\ cpc'[c] # "start_launch") =>
               /\ monitoring'
               /\ \E l \in Loops :
                    /\ Dead(l) /\ lpc'[l] = "while"
                    /\ monitor_thread' = l
                    /\ \A k \in Loops \ {l} : lpc'[k] = lpc[k]
          /\ (cpc[c] = "idle" /\ cpc'[c] = "stop_join") =>
               /\ ~monitoring'
               /\ cjoin'[c] = monitor_thread
               /\ UNCHANGED <<max_cpu_percent, check_interval,
                              current_cpu_usage, throttle_active,
                              monitor_thread, loopv>>
     /\ (\E l \in Loops : Dead(l) /\ lpc'[l] \notin {"none", "crashed"}) =>
          \E c \in Callers : cpc[c] = "start_launch" /\ cpc'[c] = "idle"
     /\ (monitoring /\ ~monitoring') =>
          UNCHANGED <<max_cpu_percent, check_interval, current_cpu_usage,
                      throttle_active, monitor_thread, loopv>>
     /\ (~monitoring /\ monitoring') =>
          \E c \in Callers : cpc[c] = "start_launch" /\ cpc'[c] = "idle"]_vars

\* C8 witness: a governor that was started and then stopped, its loop ended
C8_Witness ==
  /\ ~monitoring
  /\ monitor_thread # NoThread
  /\ LiveLoops = {}
  /\ stop_age # NoStop

\* C9: once stop_monitoring has been called and no start_monitoring has
\* followed, every sampling loop has ended when one sampling interval plus
\* the 2 s join timeout have passed.
C9_LoopEndsAfterStop == stop_age > StopBound => LiveLoops = {}

\* C9 witness: the loop was still running when stop_monitoring began its
\* join, time has passed, and the loop has left through its loop test
C9_Witness ==
  /\ stop_age # NoStop
  /\ stop_age > 0
  /\ LiveLoops = {}
  /\ ~monitoring
  /\ \E c \in Callers : cpc[c] = "stop_join" /\ lpc[cjoin[c]] = "none"

\* C10: a failure of psutil.cpu_percent does not end the sampling loop.
C10_LoopSurvivesFailure == \A l \in Loops : lpc[l] # "crashed"

\* C11: throttled_execute invokes func only after its wait_for_cpu(), called
\* without a timeout, has returned True, and invokes it once; the 0.1 s sleep
\* follows the invocation, and the value the caller gets is the value func
\* returned.
C11_ExecOrder ==
  [][\A c \in Callers :
       /\ tcalls'[c] > tcalls[c] =>
            /\ cpc[c] = "wait_done"
            /\ wtimeout[c] = NoTimeout
            /\ wresult[c] = "True"
            /\ tcalls[c] = 0
       /\ (cpc[c] # "exec_sleep" /\ cpc'[c] = "exec_sleep") =>
            /\ tcalls'[c] = tcalls[c] + 1
            /\ csleep'[c] = 100
       /\ (cpc[c] # "exec_done" /\ cpc'[c] = "exec_done"
              /\ tout'[c][1] = "value") =>
            /\ cpc[c] = "exec_sleep"
            /\ ctimer[c] = 0
            /\ tcalls[c] = 1
            /\ tfunc[c][1] = "returns"
            /\ tout'[c] = <<"value", tfunc[c][2]>>]_vars

\* a throttled_execute call has returned the value of its func
C11_Witness ==
  \E c \in Callers : cpc[c] = "exec_done" /\ tout[c] = <<"value", 2>>

\* C12: when func raises, the caller of throttled_execute gets that very
\* exception, and no step of the failing call changes monitoring,
\* current_cpu_usage or throttle_active.
C12_ExceptionPropagates ==
  [][\A c \in Callers :
       (tfunc'[c][1] = "raises" \/ tfunc[c][1] = "raises") /\ cpc'[c] # cpc[c] =>
         /\ UNCHANGED <<monitoring, current_cpu_usage, throttle_active>>
         /\ cpc'[c] = "exec_done" =>
              /\ tcalls'[c] = 1
              /\ tout'[c] = <<"exception", tfunc[c][2]>>]_vars

\* a throttled_execute call has ended with the exception of its func
C12_Witness ==
  \E c \in Callers : cpc[c] = "exec_done" /\ tout[c] = <<"exception", 2>>

\* the places 1 .. n in order
Places(n) == [k \in 1..n |-> k]

\* C13: when a task of a batch call raises, the exception leaves the call at
\* once: no later task is invoked, no result list is returned, and a list
\* that is returned holds no failed task.
C13_RaisePropagates ==
  /\ [](/\ bout = "raised" =>
             /\ bran # <<>>
             /\ tasks[bran[Len(bran)]] = "raises"
             /\ \A i \in 1..Len(bran) : bran[i] <= bran[Len(bran)]
             /\ Len(results) < Len(bran)
        /\ bout = "returned" =>
             \A i \in 1..Len(bran) : tasks[bran[i]] # "raises")
  /\ [][\A c \in Callers :
          (cpc[c] = "batch_task" /\ cpc'[c] # cpc[c]
             /\ tasks[bj] = "raises") =>
            /\ cpc'[c] = "batch_done"
            /\ bout' = "raised"
            /\ bran' = Append(bran, bj)
            /\ results' = results]_vars

\* of three tasks the second has raised: the first has run, the third has not
C13_Witness ==
  /\ bout = "raised"
  /\ Len(tasks) = 3
  /\ tasks[3] = "returns"
  /\ bran = <<1, 2>>
  /\ results = <<1>>

C15_BatchProtocol ==
  /\ [](\A c \in Callers :
          (cop[c] = "batch" /\ cpc[c] \notin {"batch_range", "batch_done"}) =>
            /\ bstep = (IF bsize = NoBatchSize THEN max_concurrent ELSE bsize)
            /\ bi = 1 + (bwaits - 1) * bstep
            /\ bj >= bi
            /\ cpc[c] \in {"batch_task", "batch_task_sleep"} =>
                 (bj < bi + bstep /\ bj <= Len(tasks)))
  /\ [][\A c \in Callers :
          /\ (cop[c] = "batch" /\ bwaits' = bwaits + 1) =>
               (cpc[c] = "batch_range" /\ cpc'[c] = "wait_test"
                  /\ wtimeout'[c] = NoTimeout)
          /\ (cop[c] = "batch" /\ cpc[c] # "wait_test"
                 /\ cpc'[c] = "wait_test") =>
               (cpc[c] \in {"batch_range", "wait_sleep"})
          /\ (cop[c] = "batch" /\ bran' # bran /\ bran' # <<>>) =>
               (cpc[c] = "batch_task" /\ bran' = Append(bran, bj))
          /\ (cpc[c] = "wait_done" /\ cop[c] = "batch"
                 /\ cpc'[c] # cpc[c]) =>
               (cpc'[c] = "batch_task" /\ wresult[c] = "True" /\ bj = bi)
          /\ (cop[c] = "batch" /\ results' # results /\ results' # <<>>) =>
               /\ results' = Append(results, bj)
               /\ cpc'[c] = "batch_task_sleep"
               /\ sbase'[c] = 200
               /\ csleep'[c] = AdaptiveSleepTime(200, current_cpu_usage)
          /\ (cpc[c] = "batch_task_sleep" /\ cpc'[c] # cpc[c]) =>
               /\ ctimer[c] = 0
               /\ bj' = bj + 1
               /\ cpc'[c] = IF bj + 1 < bi + bstep /\ bj + 1 <= Len(tasks)
                               THEN "batch_task" ELSE "batch_end"
          /\ (cpc[c] = "batch_end" /\ cpc'[c] # cpc[c]) =>
               /\ cpc'[c] = "batch_sleep"
               /\ sbase'[c] = 1000
               /\ csleep'[c] = AdaptiveSleepTime(1000, current_cpu_usage)
          /\ (cop[c] = "batch" /\ cop'[c] = "batch" /\ bi' # bi) =>
               (cpc[c] = "batch_sleep" /\ ctimer[c] = 0
                  /\ bi' = bi + bstep)]_vars

\* the second task of a batch is about to be invoked while throttle_active
\* is set
C15_Witness ==
  \E c \in Callers :
    /\ cpc[c] = "batch_task"
    /\ bj = bi + 1
    /\ bwaits = 1
    /\ throttle_active

C17_CanStart ==
  [][\A c \in Callers :
       /\ (cpc[c] # "can_done" /\ cpc'[c] = "can_done") =>
            /\ cres'[c] \in {"True", "False"}
            /\ cres'[c] = "True" <=>
                 (process_count < max_concurrent /\ ~throttle_active)
            /\ UNCHANGED <<process_count, max_concurrent, gov>>
       /\ (cpc[c] = "can_done" /\ cpc'[c] # "can_done") =>
            UNCHANGED <<process_count, max_concurrent, gov>>]_vars

\* can_start_process has returned False for the flag alone
C17_Witness ==
  \E c \in Callers :
    /\ cpc[c] = "can_done"
    /\ cres[c] = "False"
    /\ process_count < max_concurrent
    /\ throttle_active

\* C18: process_count is never negative, whatever the interleaving of
\* start_process and end_process calls; an end_process that reads 0 stores 0
\* and returns.
C18_CountNeverNegative ==
  /\ [](process_count >= 0)
  /\ [][\A c \in Callers :
          (cpc[c] = "end_write" /\ cpc'[c] # "end_write") =>
            /\ cpc'[c] = "idle"
            /\ pread[c] = 0 => process_count' = 0]_vars

\* more end_process calls than start_process calls have been made and the
\* count stands at zero
C18_Witness ==
  /\ misused
  /\ starts > 0
  /\ process_count = 0
  /\ HeldBy(Callers) = 0
  /\ \A c \in Callers : cpc[c] = "idle"

\* C19: when every end_process call follows a start_process call of the same
\* caller and no call is in progress, process_count is the number of
\* start_process calls minus the number of end_process calls.
C19_NoLostUpdate ==
  ((\A c \in Callers : cpc[c] = "idle") /\ ~misused) =>
    process_count = HeldBy(Callers)

\* C20: max_concurrent is max(1, cores // 2) of the core count read by the
\* constructor: at least 1, 2 for four cores, 1 for one core; nothing changes
\* it afterwards.
C20_MaxConcurrent ==
  /\ [](core_count # 0 =>
          /\ max_concurrent >= 1
          /\ core_count < 2 => max_concurrent = 1
          /\ core_count >= 2 =>
               /\ 2 * max_concurrent <= core_count
               /\ core_count < 2 * max_concurrent + 2
          /\ core_count = 4 => max_concurrent = 2
          /\ core_count = 1 => max_concurrent = 1)
  /\ [][core_count # 0 =>
          (max_concurrent' = max_concurrent /\ core_count' = core_count)]_vars

\* a ProcessThrottler built on four cores is in use
C20_Witness ==
  /\ core_count = 4
  /\ max_concurrent = 2
  /\ process_count = 2

\* C21: get_cpu_manager is a process-wide singleton: whatever the threads and
\* their interleaving, every call returns the same object, one CPUManager is
\* built and one sampling loop is started.
C21_Singleton ==
  /\ Len(insts) <= 1
  /\ ThreadsOf(Len(insts)) <= 1
  /\ \A c \in Callers : got[c] # NoInstance => got[c] = first_got

\* C28: once a call of get_cpu_manager has returned, the call of a thread
\* that has been given an object before returns the object of the first
\* call, whose ceiling is the one it was built with, and starts no loop.
C28_FirstCallFixes ==
  [][\A c \in Callers :
       got[c] # NoInstance =>
         /\ (cpc[c] = "get_return" /\ cpc'[c] = "idle") =>
              /\ got'[c] = first_got
              /\ insts'[got'[c]].max_cpu_percent
                   = insts[first_got].max_cpu_percent
         /\ cpc'[c] # "get_launch"
         /\ Len(insts') >= first_got =>
              insts'[first_got].max_cpu_percent
                = insts[first_got].max_cpu_percent]_vars

\* C22: a CPUManager that was built and never started has usage 0, the
\* throttle flag clear and monitoring false, and wait_for_cpu,
\* throttled_execute, adaptive_sleep and get_cpu_stats leave it so;
\* get_cpu_stats reports these values.
C22_IdleUntilStarted ==
  /\ current_cpu_usage = 0
  /\ throttle_active = FALSE
  /\ monitoring = FALSE
  /\ \A c \in Callers :
       (stats[c] # NoStats /\ cpc[c] # "stats_rest") =>
         stats[c] = [current_usage |-> 0, max_allowed |-> max_cpu_percent,
                     throttle_active |-> FALSE]

\* two threads have used the four operations on the governor
C22_Witness ==
  /\ ~monitoring
  /\ \E c, d \in Callers :
       /\ cpc[c] = "exec_done" /\ tout[c][1] = "value"
       /\ stats[c] # NoStats
       /\ cpc[d] = "adaptive_sleep" /\ ctimer[d] = 0
       /\ stats[d] # NoStats

\* C23: only the sampling loop writes current_cpu_usage and throttle_active,
\* nothing writes max_cpu_percent or check_interval, so wait_for_cpu,
\* throttled_execute, adaptive_sleep, get_cpu_stats, can_start_process,
\* start_process, end_process and throttled_batch_execute leave the four
\* fields as they are; each entry of the dict get_cpu_stats returns is the
\* value its field has when the call reads it.
C23_SingleWriter ==
  [][/\ max_cpu_percent' = max_cpu_percent
     /\ check_interval' = check_interval
     /\ current_cpu_usage' # current_cpu_usage =>
          \E l \in Loops : lpc[l] = "measure" /\ lpc'[l] = "set"
     /\ throttle_active' # throttle_active =>
          \E l \in Loops : lpc[l] = "set" /\ lpc'[l] = "sleep"
     /\ \A c \in Callers :
          /\ cpc'[c] # cpc[c] =>
               /\ current_cpu_usage' = current_cpu_usage
               /\ throttle_active' = throttle_active
          /\ (cpc[c] = "idle" /\ cpc'[c] = "stats_rest") =>
               stats'[c].current_usage = current_cpu_usage
          /\ (cpc[c] = "stats_rest" /\ cpc'[c] = "idle") =>
               /\ stats'[c].current_usage = stats[c].current_usage
               /\ stats'[c].max_allowed = max_cpu_percent
               /\ stats'[c].throttle_active = throttle_active]_vars

\* the thread has read the governor in a batch, with processes started,
\* while the flag is set, and holds a dict of get_cpu_stats that says so
C23_Witness ==
  /\ throttle_active
  /\ current_cpu_usage >= max_cpu_percent
  /\ \E c \in Workers :
       /\ cpc[c] = "wait_sleep" /\ cop[c] = "batch"
       /\ process_count > 0
       /\ stats[c] = [current_usage |-> current_cpu_usage,
                      max_allowed |-> max_cpu_percent,
                      throttle_active |-> TRUE]

\* C24: while monitoring is active and the loop is running, once the load
\* has dropped below the ceiling with the flag set and has stayed there for
\* more than one sample interval (check_interval), the flag is clear.
C24_ClearsWithinInterval ==
  (/\ monitoring
   /\ Alive(monitor_thread)
   /\ sys_low
   /\ low_age > check_interval) => ~throttle_active

\* C25: the sampling loop keeps sampling while callers are blocked in
\* wait_for_cpu or throttled_execute: whenever the loop is asleep between
\* two samples, whatever the callers do, it comes to store its next sample
\* and write the flag (or its measurement fails).
C25_LoopKeepsSampling ==
  \A l \in Loops :
    /\ (lpc[l] = "sleep") ~> (lpc[l] \in {"set", "crashed"})
    /\ (lpc[l] = "set") ~> (lpc[l] \in {"sleep", "crashed"})

\* the loop stores a sample while both callers are asleep in wait_for_cpu,
\* one of them inside throttled_execute
C25_Witness ==
  /\ lpc[1] = "set"
  /\ \A c \in Callers : cpc[c] = "wait_sleep" /\ ctimer[c] > 0
  /\ \E c \in Callers : cop[c] = "throttled_execute"
  /\ \E c \in Callers : cop[c] = "none"

\* C26: after any sequence of start_process and end_process calls
\* process_count is at most max_concurrent.
C26_Bounded == core_count # 0 => process_count <= max_concurrent

\* C26, amended: start_process counts every call, whatever max_concurrent
\* is: in one thread each start_process raises process_count by exactly
\* one, so process_count is bounded by the number of start_process calls
\* made and by nothing else; a start made while process_count is below
\* max_concurrent (the case in which can_start_process can say True) leaves
\* it at most max_concurrent.
C26_Amended ==
  /\ [](process_count <= starts)
  /\ [][\A c \in Workers :
          (cpc[c] = "start_write" /\ cpc'[c] = "idle") =>
            /\ process_count' = process_count + 1
            /\ process_count < max_concurrent =>
                 process_count' <= max_concurrent]_vars

\* start_process has returned with more processes counted than
\* max_concurrent allows
C26_Witness ==
  /\ core_count # 0
  /\ process_count > max_concurrent
  /\ \A c \in Workers : cpc[c] = "idle" /\ held[c] = process_count

\* the backoff step of the claim for an excess, in ticks: 0.5 s up to an
\* excess of 10, 1.0 s up to 20, 2.0 s beyond
BackoffStep(excess) ==
  IF excess <= 10 THEN 1 ELSE IF excess <= 20 THEN 2 ELSE 4

\* a wait_for_cpu(timeout = t) call of c has ended in a timeout
TimedOutCall(c) ==
  /\ cpc[c] = "wait_done"
  /\ wresult[c] = "False"
  /\ wclock[c] # NoClock

Stopped == ~monitoring /\ \A l \in Loops : Dead(l)

\* a step of stop_monitoring: line 47, or the join of line 49
StopStep ==
  \/ monitoring /\ ~monitoring'
  \/ \E c \in Callers : cpc[c] # cpc'[c] /\ "stop_join" \in {cpc[c], cpc'[c]}

\* C29: stop_monitoring writes the monitoring flag and nothing else of the
\* governor; once the loops have exited, usage and the throttle flag keep
\* their values while the governor is Stopped; and while it is Stopped with
\* the flag set, no wait_for_cpu without a timeout returns.
C29_StopKeepsValues ==
  [][/\ StopStep =>
          /\ current_cpu_usage' = current_cpu_usage
          /\ throttle_active' = throttle_active
          /\ max_cpu_percent' = max_cpu_percent
          /\ check_interval' = check_interval
          /\ monitor_thread' = monitor_thread
     /\ Stopped =>
          /\ current_cpu_usage' = current_cpu_usage
          /\ throttle_active' = throttle_active
     /\ \A c \in Callers :
          (Stopped /\ throttle_active /\ wtimeout[c] = NoTimeout) =>
            ~Returns(c)]_vars

\* the governor was stopped with the flag set at least a tick ago, its loops
\* have exited, and a wait_for_cpu without timeout that was then called is
\* asleep a second time
C29_Witness ==
  /\ Stopped
  /\ throttle_active
  /\ current_cpu_usage >= max_cpu_percent
  /\ stop_age > StopBound
  /\ \E c \in Waiters :
       /\ cpc[c] = "wait_sleep"
       /\ wtimeout[c] = NoTimeout
       /\ wslept[c]

\* the places of the callable entries of a task list, in order
CallablePlaces(ts) ==
  SelectSeq(Places(Len(ts)), LAMBDA k : ts[k] # "not_callable")

\* C30: a batch call passes over an entry that is not callable: it does not
\* raise, appends no result and begins no adaptive_sleep(0.2) for it; the
\* list a call over batches of at least one entry returns holds the results
\* of exactly the callable entries, in their order.
C30_SkipsNonCallable ==
  /\ [](\A c \in Callers :
          (/\ cpc[c] = "batch_done"
           /\ bout = "returned"
           /\ bsize = NoBatchSize \/ bsize >= 1) =>
            /\ results = CallablePlaces(tasks)
            /\ Len(results) = Len(CallablePlaces(tasks)))
  /\ [][\A c \in Callers :
          (/\ cpc[c] = "batch_task"
           /\ cpc'[c] # cpc[c] \/ bj' # bj
           /\ tasks[bj] = "not_callable") =>
            /\ results' = results
            /\ bran' = bran
            /\ bout' = bout
            /\ ctimer'[c] = ctimer[c]
            /\ csleep'[c] = csleep[c]
            /\ cpc'[c] \in {"batch_task", "batch_end"}
            /\ bj' = bj + 1]_vars

\* a list with an entry that is not callable between two tasks was run
C30_Witness ==
  \E c \in Callers :
    /\ cpc[c] = "batch_done"
    /\ bout = "returned"
    /\ tasks = <<"returns", "not_callable", "returns">>
    /\ results = <<1, 3>>

====
